---- MODULE Spec2Model ----
(***************************************************************************)
(* Model of the retrieval-augmented chatbot: LangChainVectorStore          *)
(* (src/src/vector_store.py), LangChainChatbot (src/src/chatbot.py),       *)
(* LangChainDataLoader (src/src/data_loader.py), the command-line start-up *)
(* (src/scripts/run_chatbot.py) and the web host (src/streamlit_app/app.py).*)
(*                                                                         *)
(* Text is a sequence of characters; a question is an atom.  Embeddings    *)
(* are unit vectors of the plane with integer coordinates, so that the     *)
(* squared L2 distance the FAISS flat index computes stays an integer.     *)
(***************************************************************************)
EXTENDS Integers, Sequences, FiniteSets, TLC

\* ------------------------------------------------------------------ bounds
\* Turns (chat calls and chat_stream generators) started on one chatbot.
MaxTurns == 2
\* Calls made on the vector stores in one run.
MaxStoreOps == 3

\* ------------------------------------------------------- program constants
\* config.py: TOP_K_RESULTS = int(os.getenv("TOP_K_RESULTS", "3"))
TOP_K_RESULTS == 3

\* Python's None where an object is expected.
None == [none |-> TRUE]
\* An omitted (None) path argument.
DefaultArg == "<None>"
CHATBOT_NAME == "Assistant"
VECTOR_STORE_PATH == "vector_store"

\* ------------------------------------------------------------ input sets
Questions == {"q1", "q2"}
\* Configured values of MAX_CONVERSATION_HISTORY (config.py:33).
HistoryValues == {0, 1, 2}
\* What llm.stream may produce: the chunk.content of each chunk, in order.
Streams == {<<>>, << <<"x">> >>, << <<"x">>, <<"y">> >>}
\* result['answer'] / response.content of a non-streaming call.
Answers == {<<"z">>}
\* The index a chatbot may be constructed with.
ChatbotDocs == <<"north", "west">>
\* page_content of the documents that may be indexed.
Documents == {"east", "north", "west"}
\* The document lists passed to create_vectorstore / add_documents; a
\* document may occur twice, FAISS does not deduplicate.
DocLists == {<<>>, <<"east">>, <<"north", "west", "east">>}
\* Query texts of the searches on a store.
Queries == {"east", "north"}
\* The k of a search: below, at and above the sizes an index reaches.
KValues == {1, 2, 5}
\* The LangChainVectorStore instances.
Stores == {1, 2}
\* Paths other than the default one.
OtherPath == "other_path"
Paths == {VECTOR_STORE_PATH, OtherPath}
\* The path argument of save/load: omitted (None), empty, or a directory.
PathArgs == {DefaultArg, OtherPath}
\* What a path of the disk holds: nothing, something FAISS cannot read, or
\* the directory FAISS.save_local wrote.
Missing == [kind |-> "missing"]
Corrupt == [kind |-> "corrupt"]

Min(a, b) == IF a < b THEN a ELSE b
Max(a, b) == IF a > b THEN a ELSE b

\* ------------------------------------------------------- python helpers
\* s[start:] of a Python list: a negative start counts from the end, and
\* -0 is 0, so s[-0:] is the whole list.
PySliceFrom(s, start) ==
    LET n == Len(s)
        begin == IF start < 0 THEN Max(n + start, 0) ELSE Min(start, n)
    IN  SubSeq(s, begin + 1, n)

\* `a or b` for an optional string: None and "" are falsy.
PyOr(a, b) == IF a = DefaultArg \/ a = "" THEN b ELSE a

\* Concatenation of a sequence of texts, in order (repeated +=).
RECURSIVE Concat(_)
Concat(fs) == IF fs = <<>> THEN <<>> ELSE Head(fs) \o Concat(Tail(fs))

\* ------------------------------------------------- embeddings and FAISS
\* HuggingFaceEmbeddings with normalize_embeddings=True: a unit vector per
\* text (vector_store.py:30-34).  Every store uses the same model.
Embed(text) ==
    CASE text \in {"east", "q1"} -> <<1, 0>>
      [] text \in {"north", "q2"} -> <<0, 1>>
      [] text = "west" -> <<-1, 0>>
      [] OTHER -> <<0, -1>>

\* Squared L2 distance, the score of the default FAISS flat index
\* (DistanceStrategy.EUCLIDEAN_DISTANCE): lower means more similar.
L2(u, v) == (u[1] - v[1]) * (u[1] - v[1]) + (u[2] - v[2]) * (u[2] - v[2])

\* Inner product of two vectors: the cosine similarity of unit vectors.
Cosine(u, v) == u[1] * v[1] + u[2] * v[2]

\* FAISS.from_documents: one vector per document in the index, the
\* documents in the docstore, and the map from index position to docstore id.
FAISS_from_documents(documents) ==
    [index |-> [i \in 1..Len(documents) |-> Embed(documents[i])],
     docstore |-> documents,
     index_to_docstore_id |-> [i \in 1..Len(documents) |-> i]]

\* FAISS.add_documents: appends the new vectors and documents.
FAISS_add_documents(faiss, documents) ==
    LET n == Len(faiss.docstore)
    IN  [index |-> faiss.index \o [i \in 1..Len(documents) |-> Embed(documents[i])],
         docstore |-> faiss.docstore \o documents,
         index_to_docstore_id |->
             faiss.index_to_docstore_id \o [i \in 1..Len(documents) |-> n + i]]

\* FAISS.similarity_search_with_score(query, k): the k nearest entries by
\* L2 distance, nearest first (equal distances in insertion order), each
\* with its distance; positions the index cannot fill are dropped.
FAISS_similarity_search_with_score(faiss, query, k) ==
    LET n == Len(faiss.index)
        d(i) == L2(faiss.index[i], Embed(query))
        Rank(i) == Cardinality({j \in 1..n : d(j) < d(i) \/ (d(j) = d(i) /\ j < i)})
        At(r) == CHOOSE i \in 1..n : Rank(i) = r - 1
    IN  [r \in 1..Min(k, n) |->
            <<faiss.docstore[faiss.index_to_docstore_id[At(r)]], d(At(r))>>]

\* FAISS.similarity_search: the documents of the scored search.
FAISS_similarity_search(faiss, query, k) ==
    LET scored == FAISS_similarity_search_with_score(faiss, query, k)
    IN  [r \in 1..Len(scored) |-> scored[r][1]]

\* FAISS.save_local: index.faiss holds the vectors, index.pkl the docstore
\* and the position map.
FAISS_save_local(faiss) ==
    [index_faiss |-> faiss.index,
     index_pkl |-> <<faiss.docstore, faiss.index_to_docstore_id>>]

\* FAISS.load_local of a directory written by save_local.
FAISS_load_local(dir) ==
    [index |-> dir.index_faiss,
     docstore |-> dir.index_pkl[1],
     index_to_docstore_id |-> dir.index_pkl[2]]

\* ------------------------------------------------------------------ state
VARIABLES
    \* LangChainVectorStore instances and the file system
    store_vectorstore,  \* [Stores -> None or a FAISS index]: self.vectorstore
    store_path,         \* [Stores -> Paths]: self.store_path
    disk,               \* [Paths -> Missing, Corrupt or a saved directory]
    vret,               \* outcome of the last call on a store
    last_save,          \* path and index of the last successful save
    store_ops,          \* calls made on the stores so far
    \* LangChainChatbot
    MAX_CONVERSATION_HISTORY,  \* config.py:33, read once from the environment
    vectorstore,        \* self.vectorstore: None or a FAISS index
    chain,              \* self.chain: None or the retrieval chain
    enable_logging,     \* self.enable_logging
    chat_history,       \* self.chat_history: list of (question, answer)
    log,                \* records of the conversation log file
    gen,                \* the chat_stream generator in progress
    yielded,            \* fragments the caller received in the current stream
    ret,                \* outcome of the last call on the chatbot
    pre_history,        \* chat_history when the last turn started
    since_clear,        \* turns started since the last clear_memory (-1: none yet)
    completed,          \* turns that completed without an exception
    turns,              \* turns started so far
    \* scripts/run_chatbot.py, streamlit_app/app.py
    main_pc,            \* position of main()
    \* LangChainDataLoader
    directory,          \* the raw data directory: Missing or its files
    loader,             \* the constructed loader, or the outcome of __init__
    lret                \* outcome of the last call on the loader

store_vars == <<store_vectorstore, store_path, disk, vret, last_save, store_ops>>
chat_vars == <<MAX_CONVERSATION_HISTORY, vectorstore, chain, enable_logging,
               chat_history, log, gen, yielded, ret, pre_history, since_clear,
               completed, turns>>
loader_vars == <<directory, loader, lret>>
vars == <<store_vars, chat_vars, main_pc, loader_vars>>

\* ------------------------------------------- LangChainVectorStore methods
NoCall == [op |-> "none", store |-> 0, pre_none |-> TRUE, raised |-> FALSE,
           documents |-> <<>>, path |-> "", query |-> "", k |-> 0, value |-> None]

\* The record of one call on store s.
Call(op, s) == [NoCall EXCEPT !.op = op, !.store = s,
                              !.pre_none = (store_vectorstore[s] = None)]

\* __init__: store_path or VECTOR_STORE_PATH; no index yet.
StoreInit ==
    /\ store_vectorstore = [s \in Stores |-> None]
    /\ \E args \in [Stores -> PathArgs] :
          store_path = [s \in Stores |-> PyOr(args[s], VECTOR_STORE_PATH)]
    /\ disk \in [Paths -> {Missing, Corrupt}]
    /\ vret = NoCall
    /\ last_save = None
    /\ store_ops = 0

create_vectorstore(s, documents) ==
    /\ store_ops < MaxStoreOps
    /\ store_ops' = store_ops + 1
    /\ IF documents = <<>>
       THEN /\ vret' = [Call("create_vectorstore", s) EXCEPT !.raised = TRUE]
            /\ UNCHANGED store_vectorstore
       ELSE /\ store_vectorstore' =
                   [store_vectorstore EXCEPT ![s] = FAISS_from_documents(documents)]
            /\ vret' = [Call("create_vectorstore", s) EXCEPT !.documents = documents]
    /\ UNCHANGED <<store_path, disk, last_save, chat_vars, main_pc, loader_vars>>

\* add_documents that builds the index when there is none yet.
add_documents_creating(s, documents) ==
    /\ store_ops < MaxStoreOps
    /\ store_ops' = store_ops + 1
    /\ documents # <<>>
    /\ store_vectorstore' =
           [store_vectorstore EXCEPT
               ![s] = IF store_vectorstore[s] = None
                      THEN FAISS_from_documents(documents)
                      ELSE FAISS_add_documents(store_vectorstore[s], documents)]
    /\ vret' = [Call("add_documents", s) EXCEPT !.documents = documents]
    /\ UNCHANGED <<store_path, disk, last_save, chat_vars, main_pc, loader_vars>>

\* Adding an empty list to a built index is left to the library and is not
\* explored; on an unbuilt index every list raises.
add_documents(s, documents) ==
    /\ store_ops < MaxStoreOps
    /\ store_ops' = store_ops + 1
    /\ IF store_vectorstore[s] = None
       THEN /\ vret' = [Call("add_documents", s) EXCEPT !.raised = TRUE]
            /\ UNCHANGED store_vectorstore
       ELSE /\ documents # <<>>
            /\ store_vectorstore' =
                   [store_vectorstore EXCEPT
                       ![s] = FAISS_add_documents(store_vectorstore[s], documents)]
            /\ vret' = [Call("add_documents", s) EXCEPT !.documents = documents]
    /\ UNCHANGED <<store_path, disk, last_save, chat_vars, main_pc, loader_vars>>

\* save_path = path or self.store_path
SavePath(s, path) == PyOr(path, store_path[s])

save(s, path) ==
    /\ store_ops < MaxStoreOps
    /\ store_ops' = store_ops + 1
    /\ IF store_vectorstore[s] = None
       THEN /\ vret' = [Call("save", s) EXCEPT !.raised = TRUE]
            /\ UNCHANGED <<disk, last_save>>
       ELSE /\ disk' = [disk EXCEPT
                          ![SavePath(s, path)] = FAISS_save_local(store_vectorstore[s])]
            /\ last_save' = [path |-> SavePath(s, path),
                             faiss |-> store_vectorstore[s]]
            /\ vret' = [Call("save", s) EXCEPT !.path = SavePath(s, path)]
    /\ UNCHANGED <<store_vectorstore, store_path, chat_vars, main_pc, loader_vars>>

\* load_path = path or self.store_path
LoadPath(s, path) == PyOr(path, store_path[s])

\* LoadResult with FAISS.load_local reading self.store_path instead of
\* load_path.
LoadResult_store_path(s, path) ==
    LET dir == disk[store_path[s]]
    IN  IF disk[LoadPath(s, path)] = Missing \/ dir = Missing \/ dir = Corrupt
        THEN [ok |-> FALSE, raised |-> FALSE, vectorstore |-> store_vectorstore[s]]
        ELSE [ok |-> TRUE, raised |-> FALSE, vectorstore |-> FAISS_load_local(dir)]

\* LoadResult without the except clause: a directory FAISS cannot read
\* makes load raise.
LoadResult_uncaught(s, path) ==
    LET dir == disk[LoadPath(s, path)]
    IN  IF dir = Missing
        THEN [ok |-> FALSE, raised |-> FALSE, vectorstore |-> store_vectorstore[s]]
        ELSE IF dir = Corrupt
        THEN [ok |-> FALSE, raised |-> TRUE, vectorstore |-> store_vectorstore[s]]
        ELSE [ok |-> TRUE, raised |-> FALSE, vectorstore |-> FAISS_load_local(dir)]

\* What load does: the value it returns (ok), whether an exception leaves
\* it (never: every exception of FAISS.load_local is caught), and the index
\* it leaves in self.vectorstore.
LoadResult(s, path) ==
    LET dir == disk[LoadPath(s, path)]
    IN  IF dir = Missing
        THEN [ok |-> FALSE, raised |-> FALSE, vectorstore |-> store_vectorstore[s]]
        ELSE IF dir = Corrupt
        THEN [ok |-> FALSE, raised |-> FALSE, vectorstore |-> store_vectorstore[s]]
        ELSE [ok |-> TRUE, raised |-> FALSE, vectorstore |-> FAISS_load_local(dir)]

load(s, path) ==
    /\ store_ops < MaxStoreOps
    /\ store_ops' = store_ops + 1
    /\ store_vectorstore' =
           [store_vectorstore EXCEPT ![s] = LoadResult(s, path).vectorstore]
    /\ vret' = [Call("load", s) EXCEPT !.path = LoadPath(s, path),
                                       !.raised = LoadResult(s, path).raised,
                                       !.value = LoadResult(s, path).ok]
    /\ UNCHANGED <<store_path, disk, last_save, chat_vars, main_pc, loader_vars>>

similarity_search(s, query, k) ==
    /\ store_ops < MaxStoreOps
    /\ store_ops' = store_ops + 1
    /\ vret' = IF store_vectorstore[s] = None
               THEN [Call("similarity_search", s) EXCEPT !.raised = TRUE]
               ELSE [Call("similarity_search", s) EXCEPT
                        !.query = query, !.k = k,
                        !.value = FAISS_similarity_search(store_vectorstore[s], query, k)]
    /\ UNCHANGED <<store_vectorstore, store_path, disk, last_save, chat_vars, main_pc, loader_vars>>

\* similarity_search_with_score that does not pass k on, so that the
\* library's default k = 4 applies.
similarity_search_with_score_default_k(s, query, k) ==
    /\ store_ops < MaxStoreOps
    /\ store_ops' = store_ops + 1
    /\ vret' = IF store_vectorstore[s] = None
               THEN [Call("similarity_search_with_score", s) EXCEPT !.raised = TRUE]
               ELSE [Call("similarity_search_with_score", s) EXCEPT
                        !.query = query, !.k = k,
                        !.value = FAISS_similarity_search_with_score(
                                      store_vectorstore[s], query, 4)]
    /\ UNCHANGED <<store_vectorstore, store_path, disk, last_save, chat_vars, main_pc, loader_vars>>

similarity_search_with_score(s, query, k) ==
    /\ store_ops < MaxStoreOps
    /\ store_ops' = store_ops + 1
    /\ vret' = IF store_vectorstore[s] = None
               THEN [Call("similarity_search_with_score", s) EXCEPT !.raised = TRUE]
               ELSE [Call("similarity_search_with_score", s) EXCEPT
                        !.query = query, !.k = k,
                        !.value = FAISS_similarity_search_with_score(
                                      store_vectorstore[s], query, k)]
    /\ UNCHANGED <<store_vectorstore, store_path, disk, last_save, chat_vars, main_pc, loader_vars>>

\* ------------------------------------------------ LangChainChatbot methods
NoGen == [pc |-> "none", rag |-> FALSE, question |-> "", stream |-> <<>>,
          docs |-> <<>>, history_text |-> <<>>, full_response |-> <<>>]

NoRet == [op |-> "none", status |-> "none", error |-> "", question |-> "",
          answer |-> <<>>, value |-> <<>>]

\* What a call hands back: a result ("ok"), or an exception ("raise") caused
\* by the generation provider or by the log write.
Returned(op, question, answer) ==
    [NoRet EXCEPT !.op = op, !.status = "ok", !.question = question, !.answer = answer]
Raised(op, question, error) ==
    [NoRet EXCEPT !.op = op, !.status = "raise", !.question = question, !.error = error]

\* _create_chain: the chain holds a retriever over the vector store.
CreateChain(vs) == [retriever |-> vs]

\* __init__(vectorstore, enable_logging) with the configured history bound.
ChatbotInit(vs, logging, max_history) ==
    /\ MAX_CONVERSATION_HISTORY = max_history
    /\ vectorstore = vs
    /\ enable_logging = logging
    /\ chat_history = <<>>
    /\ chain = IF vs # None THEN CreateChain(vs) ELSE None
    /\ log = <<>>
    /\ gen = NoGen
    /\ yielded = <<>>
    /\ ret = NoRet
    /\ pre_history = <<>>
    /\ since_clear = -1
    /\ completed = 0
    /\ turns = 0

\* retriever.invoke(question): the TOP_K_RESULTS nearest documents.
Retrieve(vs, question) == FAISS_similarity_search(vs, question, TOP_K_RESULTS)

\* "Keep only recent history": chat_history[-MAX_CONVERSATION_HISTORY:]
\* when the list is longer than MAX_CONVERSATION_HISTORY.
KeepRecent(history, max_history) ==
    IF Len(history) > max_history
    THEN PySliceFrom(history, -max_history)
    ELSE history

\* "Update chat history": append the turn, then keep only recent history.
UpdateHistory(history, question, answer, max_history) ==
    KeepRecent(Append(history, <<question, answer>>), max_history)

\* The entry _log_conversation writes as one line of the log file.
LogEntry(question, answer, sources) ==
    [question |-> question, answer |-> answer,
     num_sources |-> Len(sources), sources |-> sources]

\* history_text of chat_stream: one "User: q / name: a" block per entry of
\* chat_history[-MAX_CONVERSATION_HISTORY:].
HistoryText(history, max_history) ==
    LET recent == PySliceFrom(history, -max_history)
    IN  [i \in 1..Len(recent) |->
            <<"User: ", recent[i][1], CHATBOT_NAME, recent[i][2]>>]

\* get_chat_history: two lines per entry, oldest first.
GetChatHistory(history) ==
    [i \in 1..(2 * Len(history)) |->
        IF i % 2 = 1
        THEN <<"User: ", history[(i + 1) \div 2][1]>>
        ELSE <<CHATBOT_NAME, history[i \div 2][2]>>]

\* Bookkeeping at the start of a turn.
TurnStarts ==
    /\ turns < MaxTurns
    /\ turns' = turns + 1
    /\ pre_history' = chat_history
    /\ since_clear' = IF since_clear = 0 THEN 1 ELSE -1

\* chat(question): provider_ok is whether the generation provider answers,
\* log_ok whether the log file can be written.
chat(question, answer, provider_ok, log_ok) ==
    /\ main_pc = "loop"
    /\ gen.pc = "none"
    /\ TurnStarts
    /\ IF ~provider_ok
       THEN /\ ret' = Raised("chat", question, "generation")
            /\ UNCHANGED <<chat_history, log, completed>>
       ELSE /\ chat_history' =
                   IF chain = None
                   THEN chat_history
                   ELSE UpdateHistory(chat_history, question, answer,
                                      MAX_CONVERSATION_HISTORY)
            /\ IF enable_logging /\ ~log_ok
               THEN /\ ret' = Raised("chat", question, "logging")
                    /\ UNCHANGED <<log, completed>>
               ELSE /\ log' = IF enable_logging
                              THEN Append(log, LogEntry(question, answer,
                                     IF chain = None THEN <<>>
                                     ELSE Retrieve(chain.retriever, question)))
                              ELSE log
                    /\ ret' = Returned("chat", question, answer)
                    /\ completed' = completed + 1
    /\ UNCHANGED <<MAX_CONVERSATION_HISTORY, vectorstore, chain, enable_logging,
                   gen, yielded, store_vars, main_pc, loader_vars>>

\* set_vectorstore(vectorstore): the attribute is assigned first, then
\* _create_chain runs, which raises ValueError when the store is None and
\* leaves self.chain as it was.
set_vectorstore(vs) ==
    /\ main_pc = "loop"
    /\ gen.pc = "none"
    /\ vectorstore' = vs
    /\ IF vs = None
       THEN /\ ret' = Raised("set_vectorstore", "", "value")
            /\ UNCHANGED chain
       ELSE /\ ret' = [NoRet EXCEPT !.op = "set_vectorstore", !.status = "ok"]
            /\ chain' = CreateChain(vs)
    /\ UNCHANGED <<MAX_CONVERSATION_HISTORY, enable_logging, chat_history, log, gen,
                   yielded, pre_history, since_clear, completed, turns, store_vars,
                   main_pc, loader_vars>>

\* chat_stream(question) up to the start of llm.stream: retrieval and the
\* history text of the prompt, in retrieval mode.  stream is what the
\* provider will produce unless it fails first.  With a chain but no vector
\* store, self.vectorstore.as_retriever raises AttributeError.
chat_stream(question, stream) ==
    /\ main_pc = "loop"
    /\ gen.pc = "none"
    /\ TurnStarts
    /\ IF chain # None /\ vectorstore = None
       THEN /\ ret' = Raised("chat_stream", question, "attribute")
            /\ UNCHANGED gen
       ELSE /\ gen' = IF chain = None
                      THEN [NoGen EXCEPT !.pc = "streaming", !.question = question,
                                         !.stream = stream]
                      ELSE [NoGen EXCEPT !.pc = "streaming", !.rag = TRUE,
                                         !.question = question, !.stream = stream,
                                         !.docs = Retrieve(vectorstore, question),
                                         !.history_text =
                                             HistoryText(chat_history,
                                                         MAX_CONVERSATION_HISTORY)]
            /\ UNCHANGED ret
    /\ yielded' = <<>>
    /\ UNCHANGED <<MAX_CONVERSATION_HISTORY, vectorstore, chain, enable_logging,
                   chat_history, log, completed, store_vars, main_pc, loader_vars>>

\* The provider produces a chunk: it is accumulated (retrieval mode) and
\* yielded to the caller.
stream_yield ==
    /\ gen.pc = "streaming"
    /\ gen.stream # <<>>
    /\ gen' = IF gen.rag
              THEN [gen EXCEPT !.stream = Tail(gen.stream),
                               !.full_response = gen.full_response \o Head(gen.stream)]
              ELSE [gen EXCEPT !.stream = Tail(gen.stream)]
    /\ yielded' = Append(yielded, Head(gen.stream))
    /\ UNCHANGED <<MAX_CONVERSATION_HISTORY, vectorstore, chain, enable_logging,
                   chat_history, log, ret, pre_history, since_clear, completed,
                   turns, store_vars, main_pc, loader_vars>>

\* stream_raise with the partial answer recorded before the exception
\* leaves (the history update moved into a finally block).
stream_raise_recording ==
    /\ gen.pc = "streaming"
    /\ gen' = NoGen
    /\ ret' = Raised("chat_stream", gen.question, "generation")
    /\ chat_history' = IF gen.rag
                       THEN UpdateHistory(chat_history, gen.question,
                                          gen.full_response, MAX_CONVERSATION_HISTORY)
                       ELSE chat_history
    /\ UNCHANGED <<MAX_CONVERSATION_HISTORY, vectorstore, chain, enable_logging,
                   log, yielded, pre_history, since_clear, completed,
                   turns, store_vars, main_pc, loader_vars>>

\* The provider raises inside llm.stream: the exception leaves the generator.
stream_raise ==
    /\ gen.pc = "streaming"
    /\ gen' = NoGen
    /\ ret' = Raised("chat_stream", gen.question, "generation")
    /\ UNCHANGED <<MAX_CONVERSATION_HISTORY, vectorstore, chain, enable_logging,
                   chat_history, log, yielded, pre_history, since_clear, completed,
                   turns, store_vars, main_pc, loader_vars>>

\* The caller stops consuming at a yield: the generator is closed there.
stream_close ==
    /\ gen.pc = "streaming"
    /\ Len(yielded) >= 1
    /\ gen' = NoGen
    /\ ret' = [NoRet EXCEPT !.op = "chat_stream", !.status = "closed",
                            !.question = gen.question]
    /\ UNCHANGED <<MAX_CONVERSATION_HISTORY, vectorstore, chain, enable_logging,
                   chat_history, log, yielded, pre_history, since_clear, completed,
                   turns, store_vars, main_pc, loader_vars>>

\* The provider's stream ends: in retrieval mode the turn is recorded and
\* logged; without a chain the generator just ends.
stream_finish(log_ok) ==
    /\ gen.pc = "streaming"
    /\ gen.stream = <<>>
    /\ gen' = NoGen
    /\ IF ~gen.rag
       THEN /\ ret' = Returned("chat_stream", gen.question, Concat(yielded))
            /\ completed' = completed + 1
            /\ UNCHANGED <<chat_history, log>>
       ELSE /\ chat_history' = UpdateHistory(chat_history, gen.question,
                                             gen.full_response,
                                             MAX_CONVERSATION_HISTORY)
            /\ IF enable_logging /\ ~log_ok
               THEN /\ ret' = Raised("chat_stream", gen.question, "logging")
                    /\ UNCHANGED <<log, completed>>
               ELSE /\ log' = IF enable_logging
                              THEN Append(log, LogEntry(gen.question,
                                                        gen.full_response, gen.docs))
                              ELSE log
                    /\ ret' = Returned("chat_stream", gen.question, Concat(yielded))
                    /\ completed' = completed + 1
    /\ UNCHANGED <<MAX_CONVERSATION_HISTORY, vectorstore, chain, enable_logging,
                   yielded, pre_history, since_clear, turns, store_vars, main_pc, loader_vars>>

get_chat_history ==
    /\ main_pc = "loop"
    /\ gen.pc = "none"
    /\ ret' = [NoRet EXCEPT !.op = "get_chat_history", !.status = "ok",
                            !.value = GetChatHistory(chat_history)]
    /\ UNCHANGED <<MAX_CONVERSATION_HISTORY, vectorstore, chain, enable_logging,
                   chat_history, log, gen, yielded, pre_history, since_clear,
                   completed, turns, store_vars, main_pc, loader_vars>>

clear_memory ==
    /\ main_pc = "loop"
    /\ gen.pc = "none"
    /\ chat_history' = <<>>
    /\ since_clear' = 0
    /\ ret' = [NoRet EXCEPT !.op = "clear_memory", !.status = "ok"]
    /\ UNCHANGED <<MAX_CONVERSATION_HISTORY, vectorstore, chain, enable_logging,
                   log, gen, yielded, pre_history, completed, turns, store_vars,
                   main_pc, loader_vars>>

\* ------------------------------------- RecursiveCharacterTextSplitter
\* config.py:29-30: CHUNK_SIZE and CHUNK_OVERLAP defaults.
CHUNK_SIZE == 500
CHUNK_OVERLAP == 50

\* Longest document text handed to split_documents.
MaxTextLen == 3
\* Most files in the raw data directory.
MaxFiles == 2

\* Characters of a document text; the separators are built from the last two.
Chars == {"a", "b", " ", "\n"}
Whitespace == {" ", "\n"}
Texts == UNION {[1..n -> Chars] : n \in 0..MaxTextLen}

\* separators=["\n\n", "\n", " ", ""] (data_loader.py:36).
Separators == << <<"\n", "\n">>, <<"\n">>, <<" ">>, <<>> >>

\* An integer keyword argument: omitted (None) or given.
Omitted == [given |-> FALSE, value |-> 0]
Arg(v) == [given |-> TRUE, value |-> v]
\* `a or b` for an optional integer: None and 0 are falsy.
PyOrInt(a, b) == IF a.given /\ a.value # 0 THEN a.value ELSE b

\* The chunk_size / chunk_overlap arguments a caller may pass.
SizeArgs == {Omitted} \cup {Arg(v) : v \in 0..3}

\* str.strip(): leading and trailing whitespace removed.
RECURSIVE LStrip(_)
LStrip(t) == IF t # <<>> /\ Head(t) \in Whitespace THEN LStrip(Tail(t)) ELSE t
RECURSIVE RStrip(_)
RStrip(t) ==
    IF t # <<>> /\ t[Len(t)] \in Whitespace
    THEN RStrip(SubSeq(t, 1, Len(t) - 1))
    ELSE t
Strip(t) == RStrip(LStrip(t))

\* Position of the first occurrence of sep in t, 0 when there is none.
Find(t, sep) ==
    LET hits == {i \in 1..(Len(t) - Len(sep) + 1) : SubSeq(t, i, i + Len(sep) - 1) = sep}
    IN  IF hits = {} THEN 0 ELSE CHOOSE i \in hits : \A j \in hits : i <= j

\* re.split(sep, text): the pieces between the leftmost non-overlapping
\* occurrences of sep.
RECURSIVE ReSplit(_, _)
ReSplit(t, sep) ==
    LET i == Find(t, sep)
    IN  IF i = 0
        THEN <<t>>
        ELSE <<SubSeq(t, 1, i - 1)>> \o ReSplit(SubSeq(t, i + Len(sep), Len(t)), sep)

\* _split_text_with_regex(text, separator, keep_separator=True): every
\* piece after the first keeps the separator in front; the empty separator
\* gives the characters; empty pieces are dropped.
SplitTextWithRegex(t, sep) ==
    LET pieces == ReSplit(t, sep)
        splits == IF sep = <<>>
                  THEN [i \in 1..Len(t) |-> <<t[i]>>]
                  ELSE [i \in 1..Len(pieces) |->
                           IF i = 1 THEN pieces[1] ELSE sep \o pieces[i]]
    IN  SelectSeq(splits, LAMBDA x : x # <<>>)

\* _join_docs with the empty separator: the joined text stripped, and no
\* chunk when nothing is left.
JoinDocs(current_doc) ==
    LET text == Strip(Concat(current_doc))
    IN  IF text = <<>> THEN <<>> ELSE <<text>>

\* total of _merge_splits: the length of what current_doc holds.
Total(current_doc) == Len(Concat(current_doc))

\* The while loop of _merge_splits: pieces leave the front of current_doc
\* until at most chunk_overlap is kept and the next piece fits.
RECURSIVE DropFront(_, _, _, _)
DropFront(current_doc, len, chunk_size, chunk_overlap) ==
    LET total == Total(current_doc)
    IN  IF total > chunk_overlap \/ (total + len > chunk_size /\ total > 0)
        THEN DropFront(Tail(current_doc), len, chunk_size, chunk_overlap)
        ELSE current_doc

\* _merge_splits(splits, "") from the state (docs, current_doc).
RECURSIVE MergeSplits(_, _, _, _, _)
MergeSplits(splits, docs, current_doc, chunk_size, chunk_overlap) ==
    IF splits = <<>>
    THEN docs \o JoinDocs(current_doc)
    ELSE LET d == Head(splits)
             full == Total(current_doc) + Len(d) > chunk_size /\ current_doc # <<>>
         IN  MergeSplits(Tail(splits),
                         IF full THEN docs \o JoinDocs(current_doc) ELSE docs,
                         Append(IF full
                                THEN DropFront(current_doc, Len(d), chunk_size,
                                               chunk_overlap)
                                ELSE current_doc, d),
                         chunk_size, chunk_overlap)

\* _split_text(text, separators): split on the first separator the text
\* holds, merge the pieces shorter than chunk_size, and split the others
\* again with the separators that follow.
RECURSIVE SplitText(_, _, _, _)
RECURSIVE SplitLoop(_, _, _, _, _, _)
SplitLoop(splits, good_splits, final_chunks, new_separators, chunk_size, chunk_overlap) ==
    LET merged == IF good_splits = <<>>
                  THEN <<>>
                  ELSE MergeSplits(good_splits, <<>>, <<>>, chunk_size, chunk_overlap)
    IN  IF splits = <<>>
        THEN final_chunks \o merged
        ELSE LET s == Head(splits)
             IN  IF Len(s) < chunk_size
                 THEN SplitLoop(Tail(splits), Append(good_splits, s), final_chunks,
                                new_separators, chunk_size, chunk_overlap)
                 ELSE SplitLoop(Tail(splits), <<>>,
                                final_chunks \o merged \o
                                    (IF new_separators = <<>>
                                     THEN <<s>>
                                     ELSE SplitText(s, new_separators, chunk_size,
                                                    chunk_overlap)),
                                new_separators, chunk_size, chunk_overlap)

SplitText(text, separators, chunk_size, chunk_overlap) ==
    LET hits == {i \in 1..Len(separators) :
                    separators[i] = <<>> \/ Find(text, separators[i]) > 0}
        i == IF hits = {}
             THEN Len(separators)
             ELSE CHOOSE h \in hits : \A j \in hits : h <= j
        separator == separators[i]
        new_separators == IF hits = {} \/ separator = <<>>
                          THEN <<>>
                          ELSE SubSeq(separators, i + 1, Len(separators))
    IN  SplitLoop(SplitTextWithRegex(text, separator), <<>>, <<>>,
                  new_separators, chunk_size, chunk_overlap)

\* TextSplitter.split_documents: the chunks of each document, in order.
RECURSIVE SplitDocuments(_, _, _)
SplitDocuments(documents, chunk_size, chunk_overlap) ==
    IF documents = <<>>
    THEN <<>>
    ELSE SplitText(Head(documents), Separators, chunk_size, chunk_overlap)
         \o SplitDocuments(Tail(documents), chunk_size, chunk_overlap)

\* TextSplitter.__init__ rejects these sizes with ValueError.
SplitterRejects(chunk_size, chunk_overlap) ==
    chunk_size <= 0 \/ chunk_overlap < 0 \/ chunk_overlap > chunk_size

\* ------------------------------------------- LangChainDataLoader methods
\* The document lists handed to split_documents.
SplitInputs ==
    {<<>>} \cup {<<t>> : t \in Texts}
           \cup {<<t, u>> : t, u \in {<<"a">>, <<"a", " ", "b">>}}

\* A file of the data directory: its extension, and whether its loader
\* reads it or raises.
Extensions == {"txt", "md", "csv", "pdf"}
Files == [ext : Extensions, loads : BOOLEAN]
Directories ==
    {[exists |-> FALSE, files |-> <<>>]} \cup
    {[exists |-> TRUE, files |-> fs] : fs \in UNION {[1..n -> Files] : n \in 0..MaxFiles}}

\* The documents a loader makes of a file: TextLoader one document with the
\* text of the file, CSVLoader one document per row.
FileDocs(file) ==
    CASE file.ext = "txt" -> << <<"a", "\n">> >>
      [] file.ext = "md" -> << <<"b", " ", "a">> >>
      [] file.ext = "csv" -> << <<"a">>, <<"b">> >>
      [] OTHER -> << <<"b">> >>

NoLoader == [state |-> "none", size_arg |-> Omitted, overlap_arg |-> Omitted,
             chunk_size |-> 0, chunk_overlap |-> 0]
NoLoad == [op |-> "none", raised |-> FALSE, documents |-> <<>>, chunks |-> <<>>]

IdleLoader ==
    /\ directory = [exists |-> FALSE, files |-> <<>>]
    /\ loader = NoLoader
    /\ lret = NoLoad

\* __init__(chunk_size, chunk_overlap): the sizes are `argument or default`,
\* and the splitter is constructed with them.
LangChainDataLoader(size_arg, overlap_arg) ==
    /\ main_pc = "loader"
    /\ LET chunk_size == PyOrInt(size_arg, CHUNK_SIZE)
           chunk_overlap == PyOrInt(overlap_arg, CHUNK_OVERLAP)
       IN  loader' = [state |-> IF SplitterRejects(chunk_size, chunk_overlap)
                                THEN "raised" ELSE "ok",
                      size_arg |-> size_arg, overlap_arg |-> overlap_arg,
                      chunk_size |-> chunk_size, chunk_overlap |-> chunk_overlap]
    /\ lret' = NoLoad
    /\ UNCHANGED <<directory, store_vars, chat_vars, main_pc>>

split_documents(documents) ==
    /\ main_pc = "loader"
    /\ loader.state = "ok"
    /\ lret' = [op |-> "split_documents", raised |-> FALSE, documents |-> documents,
                chunks |-> SplitDocuments(documents, loader.chunk_size,
                                          loader.chunk_overlap)]
    /\ UNCHANGED <<directory, loader, store_vars, chat_vars, main_pc>>

\* data_dir.glob("*.<ext>"): the files of that extension, in directory order.
Glob(ext) == SelectSeq(directory.files, LAMBDA f : f.ext = ext)

\* One loading loop with the try/except removed: the first failing file
\* ends the loop with its exception.
RECURSIVE LoadFiles_uncaught(_)
LoadFiles_uncaught(files) ==
    IF files = <<>>
    THEN [raised |-> FALSE, documents |-> <<>>]
    ELSE IF ~Head(files).loads
         THEN [raised |-> TRUE, documents |-> <<>>]
         ELSE LET rest == LoadFiles_uncaught(Tail(files))
              IN  [raised |-> rest.raised,
                   documents |-> FileDocs(Head(files)) \o rest.documents]

\* One loading loop: each file is loaded inside try/except Exception, and
\* the documents of the files that load are collected.
RECURSIVE LoadFiles(_)
LoadFiles(files) ==
    IF files = <<>>
    THEN [raised |-> FALSE, documents |-> <<>>]
    ELSE LET rest == LoadFiles(Tail(files))
         IN  IF Head(files).loads
             THEN [raised |-> rest.raised,
                   documents |-> FileDocs(Head(files)) \o rest.documents]
             ELSE rest

\* load_text_files: *.txt then *.md; nothing when the directory is missing.
load_text_files ==
    IF ~directory.exists
    THEN [raised |-> FALSE, documents |-> <<>>]
    ELSE LET txt == LoadFiles(Glob("txt"))
             md == LoadFiles(Glob("md"))
         IN  IF txt.raised
             THEN txt
             ELSE [raised |-> md.raised, documents |-> txt.documents \o md.documents]

\* load_csv_files: *.csv; nothing when the directory is missing.
load_csv_files ==
    IF ~directory.exists
    THEN [raised |-> FALSE, documents |-> <<>>]
    ELSE LoadFiles(Glob("csv"))

\* load_all_documents: the text documents, then the CSV documents.
load_all_documents ==
    IF load_text_files.raised
    THEN load_text_files
    ELSE [raised |-> load_csv_files.raised,
          documents |-> load_text_files.documents \o load_csv_files.documents]

\* load_and_split: no chunks when nothing was loaded, else the chunks of
\* the loaded documents.
load_and_split ==
    /\ main_pc = "loader"
    /\ loader.state = "ok"
    /\ LET loaded == load_all_documents
       IN  lret' = [op |-> "load_and_split", raised |-> loaded.raised,
                    documents |-> loaded.documents,
                    chunks |-> IF loaded.raised \/ loaded.documents = <<>>
                               THEN <<>>
                               ELSE SplitDocuments(loaded.documents, loader.chunk_size,
                                                   loader.chunk_overlap)]
    /\ UNCHANGED <<directory, loader, store_vars, chat_vars, main_pc>>

\* ------------------------------------------------------- specifications
\* A chatbot constructed with or without a vector store; the stores idle.
IdleStores ==
    /\ store_vectorstore = [s \in Stores |-> None]
    /\ store_path = [s \in Stores |-> VECTOR_STORE_PATH]
    /\ disk = [p \in Paths |-> Missing]
    /\ vret = NoCall
    /\ last_save = None
    /\ store_ops = 0

Init ==
    /\ IdleStores
    /\ IdleLoader
    /\ main_pc = "loop"
    /\ \E vs \in {None, FAISS_from_documents(ChatbotDocs)},
          logging \in BOOLEAN, max_history \in HistoryValues :
          ChatbotInit(vs, logging, max_history)

Next ==
    \/ \E q \in Questions, a \in Answers, provider_ok \in BOOLEAN,
          log_ok \in BOOLEAN : chat(q, a, provider_ok, log_ok)
    \/ \E q \in Questions, stream \in Streams : chat_stream(q, stream)
    \/ stream_yield
    \/ stream_raise
    \/ stream_close
    \/ \E log_ok \in BOOLEAN : stream_finish(log_ok)
    \/ clear_memory
    \/ get_chat_history
    \/ \E vs \in {None, FAISS_from_documents(ChatbotDocs)} : set_vectorstore(vs)

Spec == Init /\ [][Next]_vars

\* The vector stores alone: two instances and the disk they share.
InitStore ==
    /\ StoreInit
    /\ IdleLoader
    /\ main_pc = "stores"
    /\ ChatbotInit(None, TRUE, 1)

NextStore ==
    \/ \E s \in Stores, documents \in DocLists : create_vectorstore(s, documents)
    \/ \E s \in Stores, documents \in DocLists : add_documents(s, documents)
    \/ \E s \in Stores, path \in PathArgs : save(s, path)
    \/ \E s \in Stores, path \in PathArgs : load(s, path)
    \/ \E s \in Stores, query \in Queries, k \in KValues : similarity_search(s, query, k)
    \/ \E s \in Stores, query \in Queries, k \in KValues :
          similarity_search_with_score(s, query, k)

SpecStore == InitStore /\ [][NextStore]_vars

\* ------------------------------------------------ scripts/run_chatbot.py
\* The store main() loads from: LangChainVectorStore(store_path=VECTOR_STORE_PATH).
MainStore == 1

\* Before main() runs: the default path holds nothing, something unreadable
\* or an index saved by prepare_data.py.
InitMain ==
    /\ store_vectorstore = [s \in Stores |-> None]
    /\ store_path = [s \in Stores |-> VECTOR_STORE_PATH]
    /\ \E dir \in {Missing, Corrupt,
                    FAISS_save_local(FAISS_from_documents(ChatbotDocs))} :
          disk = [p \in Paths |-> IF p = VECTOR_STORE_PATH THEN dir ELSE Missing]
    /\ vret = NoCall
    /\ last_save = None
    /\ store_ops = 0
    /\ main_pc = "start"
    /\ IdleLoader
    /\ \E max_history \in HistoryValues : ChatbotInit(None, TRUE, max_history)

\* main(), lines 33-44: load the store, then construct the chatbot with the
\* loaded index or with none.  An exception leaving load would end main().
main_start ==
    /\ main_pc = "start"
    /\ LET r == LoadResult(MainStore, DefaultArg)
       IN  /\ store_vectorstore' = [store_vectorstore EXCEPT ![MainStore] = r.vectorstore]
           /\ vret' = [Call("load", MainStore) EXCEPT
                          !.path = LoadPath(MainStore, DefaultArg),
                          !.raised = r.raised, !.value = r.ok]
           /\ main_pc' = IF r.raised THEN "aborted" ELSE "loop"
           /\ vectorstore' = IF r.ok THEN r.vectorstore ELSE None
           /\ chain' = IF r.ok THEN CreateChain(r.vectorstore) ELSE None
    /\ enable_logging' = TRUE
    /\ chat_history' = <<>>
    /\ UNCHANGED <<store_path, disk, last_save, store_ops, MAX_CONVERSATION_HISTORY,
                   log, gen, yielded, ret, pre_history, since_clear, completed, turns,
                   loader_vars>>

\* 'quit' / 'exit' at the prompt.
main_quit ==
    /\ main_pc = "loop"
    /\ gen.pc = "none"
    /\ main_pc' = "done"
    /\ UNCHANGED <<store_vars, chat_vars, loader_vars>>

\* The loop of main(): a question is answered with chat_stream, consumed to
\* its end or to its exception; 'clear' and 'history' are commands.
NextMain ==
    \/ main_start
    \/ \E q \in Questions, stream \in Streams : chat_stream(q, stream)
    \/ stream_yield
    \/ stream_raise
    \/ \E log_ok \in BOOLEAN : stream_finish(log_ok)
    \/ clear_memory
    \/ get_chat_history
    \/ main_quit

SpecMain == InitMain /\ [][NextMain]_vars

\* ------------------------------------------------- streamlit_app/app.py
\* The browser sessions served by the web host.  A prompt names the session
\* that typed it.
Sessions == {1, 2}
SessionOf(question) == IF question = "q1" THEN 1 ELSE 2

\* Before the first session runs the script: as before main().
InitWeb == InitMain

\* initialize_chatbot under @st.cache_resource: the body runs for the first
\* session, and every session is handed that one chatbot and rag_enabled.
initialize_chatbot ==
    /\ main_pc = "start"
    /\ LET r == LoadResult(MainStore, DefaultArg)
       IN  /\ store_vectorstore' = [store_vectorstore EXCEPT ![MainStore] = r.vectorstore]
           /\ vret' = [Call("load", MainStore) EXCEPT
                          !.path = LoadPath(MainStore, DefaultArg),
                          !.raised = r.raised, !.value = r.ok]
           /\ main_pc' = IF r.raised THEN "aborted" ELSE "loop"
           /\ vectorstore' = IF r.ok THEN r.vectorstore ELSE None
           /\ chain' = IF r.ok THEN CreateChain(r.vectorstore) ELSE None
    /\ enable_logging' = TRUE
    /\ chat_history' = <<>>
    /\ UNCHANGED <<store_path, disk, last_save, store_ops, MAX_CONVERSATION_HISTORY,
                   log, gen, yielded, ret, pre_history, since_clear, completed, turns,
                   loader_vars>>

\* rag_enabled, as initialize_chatbot returned it.
rag_enabled == chain # None

\* A session has consumed its stream and has yet to call chatbot.chat(prompt)
\* for the source documents (app.py:151-154).
SourcesPending ==
    rag_enabled /\ gen.pc = "none" /\ ret.op = "chat_stream" /\ ret.status = "ok"

\* A session's script run for a prompt: chat_stream(prompt) on the shared
\* chatbot.  The session whose sources are pending is still in its own run.
web_prompt(question, stream) ==
    /\ SourcesPending => SessionOf(question) # SessionOf(ret.question)
    /\ chat_stream(question, stream)

\* The same run, after the stream: result = chatbot.chat(prompt).
web_sources(answer, provider_ok, log_ok) ==
    /\ SourcesPending
    /\ chat(ret.question, answer, provider_ok, log_ok)

NextWeb ==
    \/ initialize_chatbot
    \/ \E q \in Questions, stream \in Streams : web_prompt(q, stream)
    \/ stream_yield
    \/ stream_raise
    \/ \E log_ok \in BOOLEAN : stream_finish(log_ok)
    \/ \E a \in Answers, provider_ok \in BOOLEAN, log_ok \in BOOLEAN :
          web_sources(a, provider_ok, log_ok)
    \/ clear_memory
    \/ get_chat_history

SpecWeb == InitWeb /\ [][NextWeb]_vars

\* ------------------------------------------------------ the data loader
\* Loaders constructed with any sizes, splitting document lists.
InitLoader ==
    /\ IdleStores
    /\ IdleLoader
    /\ main_pc = "loader"
    /\ ChatbotInit(None, TRUE, 1)

NextLoader ==
    \/ \E size_arg \in SizeArgs, overlap_arg \in SizeArgs :
          LangChainDataLoader(size_arg, overlap_arg)
    \/ \E documents \in SplitInputs : split_documents(documents)

SpecLoader == InitLoader /\ [][NextLoader]_vars

\* Loaders reading a data directory (scripts/prepare_data.py:23-24).
InitDirectory ==
    /\ IdleStores
    /\ directory \in Directories
    /\ loader = NoLoader
    /\ lret = NoLoad
    /\ main_pc = "loader"
    /\ ChatbotInit(None, TRUE, 1)

NextDirectory ==
    \/ \E size_arg \in SizeArgs, overlap_arg \in SizeArgs :
          LangChainDataLoader(size_arg, overlap_arg)
    \/ load_and_split

SpecDirectory == InitDirectory /\ [][NextDirectory]_vars

\* ------------------------------------------------------------ properties
TurnOps == {"chat", "chat_stream"}

\* The last call on the chatbot was a turn that ended without an exception
\* and no other turn has started since.
TurnCompleted == gen.pc = "none" /\ ret.op \in TurnOps /\ ret.status = "ok"

\* A bounded FIFO of the given capacity after one more entry.
FifoPush(history, entry, capacity) ==
    LET h == Append(history, entry)
    IN  IF Len(h) > capacity THEN SubSeq(h, Len(h) - capacity + 1, Len(h)) ELSE h

\* C1: at every point a caller can observe (between operations and at each
\* yield of a stream), chat_history holds at most MAX_CONVERSATION_HISTORY
\* entries, for every configured value including 0.
C1_HistoryBounded == Len(chat_history) <= MAX_CONVERSATION_HISTORY

\* C2: when the generation provider raises during a turn (chat, or
\* chat_stream after any number of yielded fragments), the exception reaches
\* the caller and chat_history is what it was when the turn started.
C2_FailedTurnLeavesHistory ==
    (gen.pc = "none" /\ ret.error = "generation")
        => (ret.status = "raise" /\ chat_history = pre_history)

\* A retrieval-mode stream that failed after yielding, with earlier history.
C2_Witness ==
    /\ gen.pc = "none" /\ ret.op = "chat_stream" /\ ret.error = "generation"
    /\ chain # None /\ yielded # <<>> /\ chat_history # <<>>

\* C3: every turn that completes, with or without retrieval, appends exactly
\* one entry (question, concatenation of the fragments the caller received)
\* to chat_history (evicting the oldest entry at capacity).
C3_CompletedTurnAppends ==
    (TurnCompleted /\ MAX_CONVERSATION_HISTORY >= 1)
        => chat_history = FifoPush(pre_history, <<ret.question, ret.answer>>,
                                   MAX_CONVERSATION_HISTORY)

\* C4: right after clear_memory the history is empty, and after one
\* completed turn following the clear (MAX_CONVERSATION_HISTORY >= 1, either
\* retrieval mode) get_chat_history is the transcript of exactly that turn.
C4_ClearThenOneTurn ==
    /\ ret.op = "clear_memory" => Len(chat_history) = 0
    /\ (TurnCompleted /\ since_clear = 1 /\ MAX_CONVERSATION_HISTORY >= 1)
          => GetChatHistory(chat_history) =
                 << <<"User: ", ret.question>>, <<CHATBOT_NAME, ret.answer>> >>

\* C5: with logging enabled the log holds exactly one record per turn that
\* completed (chat or chat_stream, either retrieval mode); failed and
\* abandoned turns and clear_memory add none.
C5_OneRecordPerCompletedTurn == enable_logging => Len(log) = completed

\* C6: a failure while writing the conversation log never reaches the
\* caller as an exception.
C6_LoggingFailureSwallowed == ~(ret.status = "raise" /\ ret.error = "logging")

\* Calls that need a built index.
NeedIndex == {"add_documents", "save", "similarity_search",
              "similarity_search_with_score"}

\* C7: on a store whose index was never built or loaded, add_documents,
\* save, similarity_search and similarity_search_with_score raise, and so
\* does create_vectorstore with an empty list; after the failure the index
\* is still unbuilt, whatever calls came before.
C7_UnbuiltCallsFail ==
    /\ (vret.op \in NeedIndex /\ vret.pre_none)
          => (vret.raised /\ store_vectorstore[vret.store] = None)
    /\ (vret.op = "create_vectorstore" /\ vret.documents = <<>>)
          => (vret.raised /\ (vret.pre_none => store_vectorstore[vret.store] = None))

\* A save on an unbuilt store failed after two other calls.
C7_Witness ==
    /\ vret.op = "save" /\ vret.pre_none /\ vret.raised
    /\ store_ops >= 3 /\ store_vectorstore[vret.store] = None

\* C8: when the default path holds nothing or something FAISS cannot read,
\* load returns False without raising, main() goes on to its loop with a
\* chatbot that has no vector store and no chain, and every turn after that
\* streams without retrieval.
C8_LoadFailureFallsBack ==
    (main_pc # "start" /\ disk[VECTOR_STORE_PATH] \in {Missing, Corrupt})
        => /\ vret.op = "load" /\ ~vret.raised /\ vret.value = FALSE
           /\ main_pc \in {"loop", "done"}
           /\ vectorstore = None /\ chain = None
           /\ ~gen.rag

\* A turn completed in the loop after the load of an unreadable directory.
C8_Witness ==
    /\ main_pc = "loop" /\ disk[VECTOR_STORE_PATH] = Corrupt
    /\ TurnCompleted /\ ret.op = "chat_stream" /\ ret.answer # <<>>

\* Two indexes answer every search alike.
SameSearches(a, b) ==
    \A q \in Queries, k \in KValues :
        FAISS_similarity_search_with_score(a, q, k)
            = FAISS_similarity_search_with_score(b, q, k)

Count(d, docs) == Cardinality({i \in 1..Len(docs) : docs[i] = d})

\* The last call was a scored search on a built index.
Searched == vret.op = "similarity_search_with_score" /\ ~vret.raised

\* The search returned min(k, n) results, all entries of the index.
SearchReturnsEntries ==
    LET faiss == store_vectorstore[vret.store]
        docs == [r \in 1..Len(vret.value) |-> vret.value[r][1]]
    IN  /\ Len(vret.value) = Min(vret.k, Len(faiss.index))
        /\ \A d \in Documents : Count(d, docs) <= Count(d, faiss.docstore)

ValidSizesPassed ==
    /\ loader.state # "none"
    /\ loader.size_arg.given /\ loader.overlap_arg.given
    /\ 0 <= loader.overlap_arg.value
    /\ loader.overlap_arg.value < loader.size_arg.value

\* C11: for every chunk_size S and overlap O with 0 <= O < S passed to
\* LangChainDataLoader, split_documents produces chunks of length at most S,
\* and documents shorter than S each yield one chunk equal to the document.
C11_ChunksWithinSize ==
    ValidSizesPassed =>
        /\ loader.state = "ok"
        /\ lret.op = "split_documents" =>
              /\ \A i \in 1..Len(lret.chunks) :
                    Len(lret.chunks[i]) <= loader.size_arg.value
              /\ (\A i \in 1..Len(lret.documents) :
                     Len(lret.documents[i]) < loader.size_arg.value)
                 => lret.chunks = lret.documents

\* C12: a pair with 0 <= overlap < chunk_size is used by the splitter as
\* given, and a pair violating that is reported as an error; no other size
\* is ever substituted for the one the caller passed.
C12_SizesUsedAsGiven ==
    (loader.state # "none" /\ loader.size_arg.given /\ loader.overlap_arg.given) =>
        IF ValidSizesPassed
        THEN /\ loader.state = "ok"
             /\ loader.chunk_size = loader.size_arg.value
             /\ loader.chunk_overlap = loader.overlap_arg.value
        ELSE loader.state = "raised"

\* The supported files of the directory that load, in the order the three
\* loops visit them.
Supported == {"txt", "md", "csv"}
LoadedFiles ==
    SelectSeq(directory.files, LAMBDA f : f.ext = "txt" /\ f.loads)
    \o SelectSeq(directory.files, LAMBDA f : f.ext = "md" /\ f.loads)
    \o SelectSeq(directory.files, LAMBDA f : f.ext = "csv" /\ f.loads)

RECURSIVE DocsOf(_)
DocsOf(files) ==
    IF files = <<>> THEN <<>> ELSE FileDocs(Head(files)) \o DocsOf(Tail(files))

\* C13: load_and_split raises nothing and returns the chunks of exactly the
\* supported files that loaded, failing files skipped; a missing directory
\* or one without a loadable file gives the empty list.
C13_LoadAndSplitSkipsFailures ==
    lret.op = "load_and_split" =>
        /\ ~lret.raised
        /\ lret.chunks = SplitDocuments(DocsOf(LoadedFiles), loader.chunk_size,
                                        loader.chunk_overlap)
        /\ (~directory.exists \/ LoadedFiles = <<>>) => lret.chunks = <<>>

\* load_and_split has run on a directory where a supported file failed and
\* another one loaded.
C13_Witness ==
    /\ lret.op = "load_and_split"
    /\ \E i \in 1..Len(directory.files) :
          directory.files[i].ext \in Supported /\ ~directory.files[i].loads
    /\ LoadedFiles # <<>>
    /\ lret.chunks # <<>>

\* C16: in every reachable state the retrieval chain is set if and only if
\* a vector store is set, and no turn fails on a missing vector store.
C16_ChainIffVectorstore ==
    /\ (chain = None) <=> (vectorstore = None)
    /\ ~(ret.status = "raise" /\ ret.error = "attribute")

\* C14: each browser session has its own chat_history: the history a
\* session's turn puts into its prompt holds only turns of that session,
\* whatever the other sessions did in between.
C14_SessionsHavePrivateHistory ==
    (gen.pc = "streaming" /\ gen.rag) =>
        \A i \in 1..Len(gen.history_text) :
            SessionOf(gen.history_text[i][2]) = SessionOf(gen.question)

\* C15: a completed retrieval-mode turn pushes its entry into a FIFO of
\* capacity MAX_CONVERSATION_HISTORY (the oldest entry leaves at capacity,
\* the order of the others is kept), and a turn that did not complete
\* leaves the history as it was.
C15_HistoryIsFifo ==
    /\ (TurnCompleted /\ chain # None)
          => chat_history = FifoPush(pre_history, <<ret.question, ret.answer>>,
                                     MAX_CONVERSATION_HISTORY)
    /\ (gen.pc = "none" /\ ret.op \in TurnOps /\ ret.status = "raise")
          => chat_history = pre_history

====
